---- MODULE Spec2Model ----
(***************************************************************************)
(* Model of the versioned event store of liveask:                          *)
(*   backend/src/eventsdb/dynamo.rs    DynamoEventsDB::get / put           *)
(*   backend/src/eventsdb/types/mod.rs EventEntry::new / bump              *)
(*   backend/src/eventsdb/error.rs     Error                               *)
(* Writers are request handlers that hold an in-memory EventEntry and call *)
(* get and put concurrently; the table is the only shared state and its    *)
(* single-item conditional put is the only serialization point.            *)
(***************************************************************************)
EXTENDS Integers, Sequences, FiniteSets

\* ---------------------------------------------------------------- bounds
MaxVersion == 2

Writers == {"A", "B"}
\* public tokens that get is asked for, and those events are created under
Tokens == {"t1", "t2"}
NewTokens == {"t1"}
\* readings of timestamp_now and last_edit_unix values of new events
Times == {0, 12}
Versions == 0..MaxVersion

\* ------------------------------------------------------- text conversions
Digits == <<"0", "1", "2", "3", "4", "5", "6", "7", "8", "9">>

IsDigit(c) == \E i \in 1..10 : Digits[i] = c

DigitVal(c) == (CHOOSE i \in 1..10 : Digits[i] = c) - 1

\* usize::to_string / i64::to_string of a non-negative number: decimal text
RECURSIVE to_string(_)
to_string(n) ==
  IF n < 10 THEN <<Digits[n + 1]>>
  ELSE to_string(n \div 10) \o <<Digits[(n % 10) + 1]>>

RECURSIVE DigitsVal(_)
DigitsVal(s) ==
  IF Len(s) = 0 THEN 0
  ELSE 10 * DigitsVal(SubSeq(s, 1, Len(s) - 1)) + DigitVal(s[Len(s)])

\* str::parse::<usize>: an optional "+", then one or more decimal digits;
\* -1 stands for Err(ParseIntError)
ParseUsize(s) ==
  LET body == IF Len(s) > 0 /\ s[1] = "+" THEN Tail(s) ELSE s
  IN IF Len(body) > 0 /\ \A i \in 1..Len(body) : IsDigit(body[i])
     THEN DigitsVal(body)
     ELSE -1

\* AttributeValue::N(text) and AttributeValue::S(text)
AttrN(text) == [t |-> "N", x |-> text]

AttrS(text) == [t |-> "S", x |-> text]

\* serde_json::to_string of the event payload
ToJson(event) ==
  <<"{", event.public_token>> \o to_string(event.last_edit_unix) \o <<"}">>

\* serde_json::from_str of the stored payload text: ok = FALSE is Err(serde)
FromJson(s) ==
  IF /\ Len(s) >= 4
     /\ s[1] = "{"
     /\ s[Len(s)] = "}"
     /\ ParseUsize(SubSeq(s, 3, Len(s) - 1)) >= 0
     /\ s[3] # "+"
  THEN [ok |-> TRUE,
        event |-> [public_token |-> s[2],
                   last_edit_unix |-> ParseUsize(SubSeq(s, 3, Len(s) - 1))]]
  ELSE [ok |-> FALSE, event |-> [public_token |-> "", last_edit_unix |-> 0]]

\* --------------------------------------------------------------- the key
KeyPrefix == "ev/"

event_key(token) == <<KeyPrefix, token>>

Keys == {event_key(tok) : tok \in Tokens}

\* ------------------------------------------------------- the backing table
Absent == [present |-> FALSE, attrs |-> <<>>]

Item(attrs) == [present |-> TRUE, attrs |-> attrs]

HasAttr(item, name) == item.present /\ name \in DOMAIN item.attrs

\* the number a stored `v` attribute holds, -1 when there is no such number
StoredVersion(item) ==
  IF HasAttr(item, "v") /\ item.attrs["v"].t = "N"
  THEN ParseUsize(item.attrs["v"].x)
  ELSE -1

\* the table's comparison of a stored attribute with a number operand
AttrEqualsNumber(item, name, operand) ==
  /\ HasAttr(item, name)
  /\ item.attrs[name].t = "N"
  /\ ParseUsize(item.attrs[name].x) >= 0
  /\ ParseUsize(item.attrs[name].x) = ParseUsize(operand.x)

\* a stored item this program did not write: `v` is a string attribute
ForeignItem(key) ==
  Item([key |-> AttrS(key), v |-> AttrS(<<"x">>), value |-> AttrS(<<"{", "}">>)])

InitItems(key) == {Absent, ForeignItem(key)}

\* ------------------------------------------------------------ EventEntry
\* EventEntry::new: version 0
NewEntry(event) == [event |-> event, version |-> 0]

\* a bump that raises the version by two
BumpEntry_Twice(e, now) ==
  [event |-> [e.event EXCEPT !.last_edit_unix = now], version |-> e.version + 2]

\* EventEntry::bump: version += 1, last_edit_unix = timestamp_now()
BumpEntry(e, now) ==
  [event |-> [e.event EXCEPT !.last_edit_unix = now], version |-> e.version + 1]

DefaultEntry == [event |-> [public_token |-> "", last_edit_unix |-> 0], version |-> 0]

\* ------------------------------------------------------------------- put
NoCondition == [guarded |-> FALSE, ver |-> AttrN(<<>>)]

\* saturating_sub(1) on usize
SaturatingSub1(n) == IF n > 0 THEN n - 1 ELSE 0

\* put with the version guard left out
PutRequest_NoGuard(e) ==
  [key |-> event_key(e.event.public_token),
   item |-> [key |-> AttrS(event_key(e.event.public_token)),
             v |-> AttrN(to_string(e.version)),
             value |-> AttrS(ToJson(e.event))],
   cond |-> NoCondition]

\* put guarding a version-0 record too
PutRequest_AlwaysGuarded(e) ==
  [key |-> event_key(e.event.public_token),
   item |-> [key |-> AttrS(event_key(e.event.public_token)),
             v |-> AttrN(to_string(e.version)),
             value |-> AttrS(ToJson(e.event))],
   cond |-> [guarded |-> TRUE, ver |-> AttrN(to_string(SaturatingSub1(e.version)))]]

\* the put_item request built from an entry
PutRequest(e) ==
  [key |-> event_key(e.event.public_token),
   item |-> [key |-> AttrS(event_key(e.event.public_token)),
             v |-> AttrN(to_string(e.version)),
             value |-> AttrS(ToJson(e.event))],
   cond |-> IF e.version > 0
            THEN [guarded |-> TRUE, ver |-> AttrN(to_string(SaturatingSub1(e.version)))]
            ELSE NoCondition]

\* the table's decision on a put_item request it evaluates
\* a guard that passes when the key holds no item
ConditionHolds_AbsentPasses(tbl, req) ==
  \/ ~req.cond.guarded
  \/ ~tbl[req.key].present
  \/ AttrEqualsNumber(tbl[req.key], "v", req.cond.ver)

ConditionHolds(tbl, req) ==
  \/ ~req.cond.guarded
  \/ AttrEqualsNumber(tbl[req.key], "v", req.cond.ver)

\* what request.send() can return: Ok, the conditional-check service error,
\* or any other SdkError
SdkOk == [variant |-> "Ok", kind |-> "none"]

SdkConditionalCheckFailed ==
  [variant |-> "ServiceError", kind |-> "ConditionalCheckFailedException"]

SdkFailures ==
  {[variant |-> "ServiceError", kind |-> "InternalServerError"],
   [variant |-> "DispatchFailure", kind |-> "none"]}

\* the Result the caller gets
Ok == [kind |-> "Ok", cause |-> SdkOk]

NoResult == [kind |-> "none", cause |-> SdkOk]

Err(kind) == [kind |-> kind, cause |-> SdkOk]

ErrCause(kind, cause) == [kind |-> kind, cause |-> cause]

\* the error filter of put matching any service error
PutResult_AnyServiceError(resp) ==
  IF resp.variant = "Ok" THEN Ok
  ELSE IF resp.variant = "ServiceError"
       THEN Err("Concurrency")
       ELSE ErrCause("DynamoPut", resp)

\* the error filter of put dropping the conditional-check failure
PutResult_SwallowConditional(resp) ==
  IF resp.variant = "Ok" THEN Ok
  ELSE IF resp.variant = "ServiceError" /\ resp.kind = "ConditionalCheckFailedException"
       THEN Ok
       ELSE ErrCause("DynamoPut", resp)

\* the error filter of put
PutResult(resp) ==
  IF resp.variant = "Ok" THEN Ok
  ELSE IF resp.variant = "ServiceError" /\ resp.kind = "ConditionalCheckFailedException"
       THEN Err("Concurrency")
       ELSE ErrCause("DynamoPut", resp)

\* ------------------------------------------------------------------- get
\* get defaulting the version of the item it decodes
GetResult_VersionZero(item) ==
  IF ~item.present THEN [res |-> Err("ItemNotFound"), entry |-> DefaultEntry]
  ELSE IF ~HasAttr(item, "v") \/ ~HasAttr(item, "value")
       THEN [res |-> Err("panic"), entry |-> DefaultEntry]
  ELSE IF item.attrs["v"].t # "N" \/ item.attrs["value"].t # "S"
       THEN [res |-> Err("General"), entry |-> DefaultEntry]
  ELSE IF ~FromJson(item.attrs["value"].x).ok
       THEN [res |-> Err("Serde"), entry |-> DefaultEntry]
  ELSE [res |-> Ok,
        entry |-> [event |-> FromJson(item.attrs["value"].x).event, version |-> 0]]

\* get defaulting a missing item instead of failing
GetResult_DefaultOnMissing(item) ==
  IF ~item.present
  THEN [res |-> Ok, entry |-> [event |-> [public_token |-> "t1", last_edit_unix |-> 0],
                               version |-> 0]]
  ELSE IF ~HasAttr(item, "v") \/ ~HasAttr(item, "value")
       THEN [res |-> Err("panic"), entry |-> DefaultEntry]
  ELSE IF item.attrs["v"].t # "N" \/ item.attrs["value"].t # "S"
       THEN [res |-> Err("General"), entry |-> DefaultEntry]
  ELSE IF ParseUsize(item.attrs["v"].x) < 0
       THEN [res |-> Err("ParseInt"), entry |-> DefaultEntry]
  ELSE IF ~FromJson(item.attrs["value"].x).ok
       THEN [res |-> Err("Serde"), entry |-> DefaultEntry]
  ELSE [res |-> Ok,
        entry |-> [event |-> FromJson(item.attrs["value"].x).event,
                   version |-> ParseUsize(item.attrs["v"].x)]]

\* get's conversion of a fetched item
GetResult(item) ==
  IF ~item.present THEN [res |-> Err("ItemNotFound"), entry |-> DefaultEntry]
  ELSE IF ~HasAttr(item, "v") THEN [res |-> Err("panic"), entry |-> DefaultEntry]
  ELSE IF item.attrs["v"].t # "N"
       THEN [res |-> Err("General"), entry |-> DefaultEntry]
  ELSE IF ParseUsize(item.attrs["v"].x) < 0
       THEN [res |-> Err("ParseInt"), entry |-> DefaultEntry]
  ELSE IF ~HasAttr(item, "value") THEN [res |-> Err("panic"), entry |-> DefaultEntry]
  ELSE IF item.attrs["value"].t # "S"
       THEN [res |-> Err("General"), entry |-> DefaultEntry]
  ELSE IF ~FromJson(item.attrs["value"].x).ok
       THEN [res |-> Err("Serde"), entry |-> DefaultEntry]
  ELSE [res |-> Ok,
        entry |-> [event |-> FromJson(item.attrs["value"].x).event,
                   version |-> ParseUsize(item.attrs["v"].x)]]

\* ------------------------------------------------------- attribute codec
\* Option<T>
None == [some |-> FALSE]

Some(v) == [some |-> TRUE, val |-> v]

\* i64::to_string
to_string_i64(n) == IF n < 0 THEN <<"-">> \o to_string(0 - n) ELSE to_string(n)

\* str::parse::<i64>: an optional sign, then one or more decimal digits
ParseI64(s) ==
  LET signed == Len(s) > 0 /\ s[1] \in {"+", "-"}
      body == IF signed THEN Tail(s) ELSE s
  IN IF Len(body) > 0 /\ \A i \in 1..Len(body) : IsDigit(body[i])
     THEN Some(IF signed /\ s[1] = "-" THEN 0 - DigitsVal(body) ELSE DigitsVal(body))
     ELSE None

\* AttributeValue::M(map)
AttrM(map) == [t |-> "M", m |-> map]

\* HashMap::insert and HashMap::remove on an attribute map
WithAttr(map, name, val) ==
  [n \in DOMAIN map \cup {name} |-> IF n = name THEN val ELSE map[n]]

WithoutAttr(map, name) == [n \in DOMAIN map \ {name} |-> map[n]]

CURRENT_FORMAT == 1

\* the EventEntry of types/mod.rs: event, version and ttl
DefaultCodecEntry ==
  [event |-> [public_token |-> "", moderator_token |-> None, last_edit_unix |-> 0],
   version |-> 0,
   ttl |-> None]

\* conversion::event_to_attributes: one entry per field, nested mappings for
\* nested structures, absent optional fields left out, numbers as decimal text
event_to_attributes(event) ==
  LET tokens == [public_token |-> AttrS(<<event.public_token>>)]
  IN [tokens |-> AttrM(IF event.moderator_token.some
                       THEN WithAttr(tokens, "moderator_token",
                                     AttrS(<<event.moderator_token.val>>))
                       ELSE tokens),
      lastEditUnix |-> AttrN(to_string_i64(event.last_edit_unix))]

\* conversion::attributes_to_event: ok = FALSE is its malformed-field error
attributes_to_event(map) ==
  LET bad == [ok |-> FALSE, event |-> DefaultCodecEntry.event]
  IN IF \/ "tokens" \notin DOMAIN map
        \/ "lastEditUnix" \notin DOMAIN map
     THEN bad
     ELSE IF map["tokens"].t # "M" \/ map["lastEditUnix"].t # "N" THEN bad
     ELSE IF "public_token" \notin DOMAIN map["tokens"].m THEN bad
     ELSE IF map["tokens"].m["public_token"].t # "S" THEN bad
     ELSE IF /\ "moderator_token" \in DOMAIN map["tokens"].m
             /\ map["tokens"].m["moderator_token"].t # "S"
          THEN bad
     ELSE IF ~ParseI64(map["lastEditUnix"].x).some THEN bad
     ELSE [ok |-> TRUE,
           event |->
             [public_token |-> map["tokens"].m["public_token"].x[1],
              moderator_token |->
                IF "moderator_token" \in DOMAIN map["tokens"].m
                THEN Some(map["tokens"].m["moderator_token"].x[1])
                ELSE None,
              last_edit_unix |-> ParseI64(map["lastEditUnix"].x).val]]

\* encode writing a ttl entry for every record
Encode_TtlAlways(e) ==
  LET map == [key |-> AttrS(event_key(e.event.public_token)),
              format |-> AttrN(to_string(CURRENT_FORMAT)),
              v |-> AttrN(to_string(e.version)),
              event |-> AttrM(event_to_attributes(e.event))]
  IN WithAttr(map, "ttl", AttrN(to_string_i64(IF e.ttl.some THEN e.ttl.val ELSE 0)))

\* From<EventEntry> for AttributeMap
Encode(e) ==
  LET map == [key |-> AttrS(event_key(e.event.public_token)),
              format |-> AttrN(to_string(CURRENT_FORMAT)),
              v |-> AttrN(to_string(e.version)),
              event |-> AttrM(event_to_attributes(e.event))]
  IN IF e.ttl.some THEN WithAttr(map, "ttl", AttrN(to_string_i64(e.ttl.val))) ELSE map

\* the ttl of a stored map, as decode reads it
DecodeTtl(map) ==
  IF "ttl" \notin DOMAIN map THEN None
  ELSE IF map["ttl"].t # "N" THEN None
  ELSE ParseI64(map["ttl"].x)

\* decode defaulting a version it cannot parse
Decode_DefaultVersion(map) ==
  IF "v" \notin DOMAIN map THEN [res |-> Err("panic"), entry |-> DefaultCodecEntry]
  ELSE IF map["v"].t # "N" THEN [res |-> Err("General"), entry |-> DefaultCodecEntry]
  ELSE IF "event" \notin DOMAIN map
       THEN [res |-> Err("panic"), entry |-> DefaultCodecEntry]
  ELSE IF map["event"].t # "M"
       THEN [res |-> Err("MalformedObject"), entry |-> DefaultCodecEntry]
  ELSE IF ~attributes_to_event(map["event"].m).ok
       THEN [res |-> Err("MalformedObject"), entry |-> DefaultCodecEntry]
  ELSE [res |-> Ok,
        entry |-> [event |-> attributes_to_event(map["event"].m).event,
                   version |-> IF ParseUsize(map["v"].x) < 0 THEN 0
                               ELSE ParseUsize(map["v"].x),
                   ttl |-> DecodeTtl(map)]]

\* decode raising an error for a ttl it cannot read
Decode_StrictTtl(map) ==
  IF "v" \notin DOMAIN map THEN [res |-> Err("panic"), entry |-> DefaultCodecEntry]
  ELSE IF map["v"].t # "N" THEN [res |-> Err("General"), entry |-> DefaultCodecEntry]
  ELSE IF ParseUsize(map["v"].x) < 0
       THEN [res |-> Err("ParseInt"), entry |-> DefaultCodecEntry]
  ELSE IF "event" \notin DOMAIN map
       THEN [res |-> Err("panic"), entry |-> DefaultCodecEntry]
  ELSE IF map["event"].t # "M"
       THEN [res |-> Err("MalformedObject"), entry |-> DefaultCodecEntry]
  ELSE IF "ttl" \in DOMAIN map /\ ~DecodeTtl(map).some
       THEN [res |-> Err("General"), entry |-> DefaultCodecEntry]
  ELSE IF ~attributes_to_event(map["event"].m).ok
       THEN [res |-> Err("MalformedObject"), entry |-> DefaultCodecEntry]
  ELSE [res |-> Ok,
        entry |-> [event |-> attributes_to_event(map["event"].m).event,
                   version |-> ParseUsize(map["v"].x),
                   ttl |-> DecodeTtl(map)]]

\* TryFrom<&AttributeMap> for EventEntry
Decode(map) ==
  IF "v" \notin DOMAIN map THEN [res |-> Err("panic"), entry |-> DefaultCodecEntry]
  ELSE IF map["v"].t # "N" THEN [res |-> Err("General"), entry |-> DefaultCodecEntry]
  ELSE IF ParseUsize(map["v"].x) < 0
       THEN [res |-> Err("ParseInt"), entry |-> DefaultCodecEntry]
  ELSE IF "event" \notin DOMAIN map
       THEN [res |-> Err("panic"), entry |-> DefaultCodecEntry]
  ELSE IF map["event"].t # "M"
       THEN [res |-> Err("MalformedObject"), entry |-> DefaultCodecEntry]
  ELSE IF ~attributes_to_event(map["event"].m).ok
       THEN [res |-> Err("MalformedObject"), entry |-> DefaultCodecEntry]
  ELSE [res |-> Ok,
        entry |-> [event |-> attributes_to_event(map["event"].m).event,
                   version |-> ParseUsize(map["v"].x),
                   ttl |-> DecodeTtl(map)]]

\* ----------------------------------------------------------------- state
VARIABLES
  table,      \* the backing table: key -> stored item or Absent
  pc,         \* writer -> "empty" (holds no entry), "idle", "putting"
  entry,      \* writer -> the EventEntry it holds
  ret,        \* the call that returned last: who, op, response of send, Result,
              \* and for a put the race it was in
  txn,        \* writer -> "read" after its get, "bumped" after one bump of that
  interfered, \* writer -> another put was accepted on its key since its get
  race,       \* writer -> accepted puts on its key since its put was sent
  accepted,   \* key -> the record of the put accepted last on it, if any
  sent,       \* writer -> put_item requests its put in progress has issued
  codec,      \* the attribute codec at work on one value (SpecCodec)
  boot        \* DynamoEventsDB::new at work against the table list (SpecBoot)

storeVars == <<table, pc, entry, ret, txn, interfered, race, accepted, sent>>

vars == <<storeVars, codec, boot>>

\* the codec and the constructor at rest
CodecIdle == [phase |-> "idle"]

BootIdle == [phase |-> "idle"]

NoReturn ==
  [who |-> "", op |-> "none", resp |-> SdkOk, res |-> NoResult, race |-> "none",
   reqs |-> 0]

\* a returned call: reqs is the number of requests it sent to the table
Returned(w, op, resp, res, raced, reqs) ==
  [who |-> w, op |-> op, resp |-> resp, res |-> res, race |-> raced, reqs |-> reqs]

NoRecord == [some |-> FALSE, entry |-> DefaultEntry]

Record(e) == [some |-> TRUE, entry |-> e]

\* no writer has called anything yet
WritersInit ==
  /\ pc = [w \in Writers |-> "empty"]
  /\ entry = [w \in Writers |-> DefaultEntry]
  /\ ret = NoReturn
  /\ txn = [w \in Writers |-> "none"]
  /\ interfered = [w \in Writers |-> FALSE]
  /\ race = [w \in Writers |-> "none"]
  /\ accepted = [k \in Keys |-> NoRecord]
  /\ sent = [w \in Writers |-> 0]

StoreInit ==
  /\ table \in {t \in [Keys -> {Absent} \cup {ForeignItem(k) : k \in Keys}] :
                  \A k \in Keys : t[k] \in InitItems(k)}
  /\ WritersInit

Init == StoreInit /\ codec = CodecIdle /\ boot = BootIdle

KeyOf(w) == event_key(entry[w].event.public_token)

\* the caller builds a fresh record: EventEntry::new
New(w, tok, t) ==
  /\ pc[w] \in {"empty", "idle"}
  /\ pc' = [pc EXCEPT ![w] = "idle"]
  /\ entry' = [entry EXCEPT ![w] = NewEntry([public_token |-> tok, last_edit_unix |-> t])]
  /\ txn' = [txn EXCEPT ![w] = "none"]
  /\ interfered' = [interfered EXCEPT ![w] = FALSE]
  /\ UNCHANGED <<table, ret, race, accepted, sent, codec, boot>>

\* get dropping an item it cannot decode
GetOk_DropMalformed(w, tok) ==
  LET got == GetResult(table[event_key(tok)])
  IN /\ pc[w] \in {"empty", "idle"}
     /\ ret' = Returned(w, "get", SdkOk, got.res, "none", 1)
     /\ IF got.res = Ok
        THEN /\ entry' = [entry EXCEPT ![w] = got.entry]
             /\ pc' = [pc EXCEPT ![w] = "idle"]
             /\ txn' = [txn EXCEPT ![w] = "read"]
             /\ interfered' = [interfered EXCEPT ![w] = FALSE]
             /\ table' = table
        ELSE /\ table' = [table EXCEPT ![event_key(tok)] = Absent]
             /\ UNCHANGED <<entry, pc, txn, interfered>>
     /\ UNCHANGED <<race, accepted, sent, codec, boot>>

\* DynamoEventsDB::get, get_item answering with the item (or none)
GetOk(w, tok) ==
  LET got == GetResult(table[event_key(tok)])
  IN /\ pc[w] \in {"empty", "idle"}
     /\ ret' = Returned(w, "get", SdkOk, got.res, "none", 1)
     /\ IF got.res = Ok
        THEN /\ entry' = [entry EXCEPT ![w] = got.entry]
             /\ pc' = [pc EXCEPT ![w] = "idle"]
             /\ txn' = [txn EXCEPT ![w] = "read"]
             /\ interfered' = [interfered EXCEPT ![w] = FALSE]
        ELSE UNCHANGED <<entry, pc, txn, interfered>>
     /\ UNCHANGED <<table, race, accepted, sent, codec, boot>>

\* DynamoEventsDB::get, get_item failing
GetFail(w, tok, failure) ==
  /\ pc[w] \in {"empty", "idle"}
  /\ ret' = Returned(w, "get", failure, ErrCause("DynamoGetItemError", failure), "none", 1)
  /\ UNCHANGED <<table, pc, entry, txn, interfered, race, accepted, sent, codec, boot>>

\* EventEntry::bump
Bump(w, now) ==
  /\ pc[w] = "idle"
  /\ entry[w].version < MaxVersion
  /\ entry' = [entry EXCEPT ![w] = BumpEntry(entry[w], now)]
  /\ txn' = [txn EXCEPT ![w] = IF txn[w] = "read" THEN "bumped" ELSE "none"]
  /\ interfered' = [interfered EXCEPT ![w] = txn[w] = "read" /\ interfered[w]]
  /\ UNCHANGED <<table, pc, ret, race, accepted, sent, codec, boot>>

\* DynamoEventsDB::put up to request.send()
PutSend(w) ==
  /\ pc[w] = "idle"
  /\ pc' = [pc EXCEPT ![w] = "putting"]
  /\ race' = [race EXCEPT ![w] = "none"]
  /\ sent' = [sent EXCEPT ![w] = 1]
  /\ UNCHANGED <<table, entry, ret, txn, interfered, accepted, codec, boot>>

\* bookkeeping of an accepted put by w, for the other writers u
RaceAfter(w, u) ==
  IF u # w /\ pc[u] = "putting" /\ KeyOf(u) = KeyOf(w)
  THEN IF entry[u].version = entry[w].version /\ race[u] \in {"none", "same"}
       THEN "same" ELSE "mixed"
  ELSE IF u = w THEN "none" ELSE race[u]

InterferedAfter(w, u) ==
  IF u = w THEN FALSE
  ELSE IF txn[u] # "none" /\ KeyOf(u) = KeyOf(w) THEN TRUE ELSE interfered[u]

\* a put whose item is written before the guard is looked at
PutEval_WriteThenCheck(w) ==
  LET req == PutRequest(entry[w])
  IN /\ pc[w] = "putting"
     /\ pc' = [pc EXCEPT ![w] = "idle"]
     /\ table' = [table EXCEPT ![req.key] = Item(req.item)]
     /\ IF ConditionHolds(table, req)
        THEN /\ accepted' = [accepted EXCEPT ![req.key] = Record(entry[w])]
             /\ ret' = Returned(w, "put", SdkOk, PutResult(SdkOk), race[w], sent[w])
             /\ race' = [u \in Writers |-> RaceAfter(w, u)]
             /\ interfered' = [u \in Writers |-> InterferedAfter(w, u)]
        ELSE /\ ret' = Returned(w, "put", SdkConditionalCheckFailed,
                                PutResult(SdkConditionalCheckFailed), race[w], sent[w])
             /\ race' = [race EXCEPT ![w] = "none"]
             /\ interfered' = [interfered EXCEPT ![w] = FALSE]
             /\ UNCHANGED accepted
     /\ txn' = [txn EXCEPT ![w] = "none"]
     /\ sent' = [sent EXCEPT ![w] = 0]
     /\ UNCHANGED <<entry, codec, boot>>

\* the table evaluates w's put_item and put returns
PutEval(w) ==
  LET req == PutRequest(entry[w])
  IN /\ pc[w] = "putting"
     /\ pc' = [pc EXCEPT ![w] = "idle"]
     /\ IF ConditionHolds(table, req)
        THEN /\ table' = [table EXCEPT ![req.key] = Item(req.item)]
             /\ accepted' = [accepted EXCEPT ![req.key] = Record(entry[w])]
             /\ ret' = Returned(w, "put", SdkOk, PutResult(SdkOk), race[w], sent[w])
             /\ race' = [u \in Writers |-> RaceAfter(w, u)]
             /\ interfered' = [u \in Writers |-> InterferedAfter(w, u)]
        ELSE /\ ret' = Returned(w, "put", SdkConditionalCheckFailed,
                                PutResult(SdkConditionalCheckFailed), race[w], sent[w])
             /\ race' = [race EXCEPT ![w] = "none"]
             /\ interfered' = [interfered EXCEPT ![w] = FALSE]
             /\ UNCHANGED <<table, accepted>>
     /\ txn' = [txn EXCEPT ![w] = "none"]
     /\ sent' = [sent EXCEPT ![w] = 0]
     /\ UNCHANGED <<entry, codec, boot>>

\* a put that sends its request again when put_item fails
PutFail_Retry(w, failure) ==
  /\ pc[w] = "putting"
  /\ IF sent[w] < 2
     THEN /\ sent' = [sent EXCEPT ![w] = sent[w] + 1]
          /\ UNCHANGED <<pc, ret, txn, interfered, race>>
     ELSE /\ pc' = [pc EXCEPT ![w] = "idle"]
          /\ ret' = Returned(w, "put", failure, PutResult(failure), race[w], sent[w])
          /\ txn' = [txn EXCEPT ![w] = "none"]
          /\ interfered' = [interfered EXCEPT ![w] = FALSE]
          /\ race' = [race EXCEPT ![w] = "none"]
          /\ sent' = [sent EXCEPT ![w] = 0]
  /\ UNCHANGED <<table, entry, accepted, codec, boot>>

\* w's put_item fails otherwise and put returns
PutFail(w, failure) ==
  /\ pc[w] = "putting"
  /\ pc' = [pc EXCEPT ![w] = "idle"]
  /\ ret' = Returned(w, "put", failure, PutResult(failure), race[w], sent[w])
  /\ txn' = [txn EXCEPT ![w] = "none"]
  /\ interfered' = [interfered EXCEPT ![w] = FALSE]
  /\ race' = [race EXCEPT ![w] = "none"]
  /\ sent' = [sent EXCEPT ![w] = 0]
  /\ UNCHANGED <<table, entry, accepted, codec, boot>>

Next ==
  \/ \E w \in Writers, tok \in NewTokens, t \in Times : New(w, tok, t)
  \/ \E w \in Writers, tok \in Tokens : GetOk(w, tok)
  \/ \E w \in Writers, tok \in Tokens, f \in SdkFailures : GetFail(w, tok, f)
  \/ \E w \in Writers, now \in Times : Bump(w, now)
  \/ \E w \in Writers : PutSend(w)
  \/ \E w \in Writers : PutEval(w)
  \/ \E w \in Writers, f \in SdkFailures : PutFail(w, f)

Spec == Init /\ [][Next]_vars

TypeOK ==
  /\ \A k \in Keys : table[k].present \in BOOLEAN
  /\ \A w \in Writers : pc[w] \in {"empty", "idle", "putting"}
  /\ \A w \in Writers : entry[w].version \in Versions
  /\ \A w \in Writers : txn[w] \in {"none", "read", "bumped"}
  /\ \A w \in Writers : race[w] \in {"none", "same", "mixed"}
  /\ \A w \in Writers : interfered[w] \in BOOLEAN
  /\ \A w \in Writers : sent[w] \in {0, 1}

\* ------------------------------------------- the codec on sample values
\* records to encode
CodecVersions == Versions \cup {12}

CodecEntries ==
  {[event |-> [public_token |-> "token1", moderator_token |-> mt, last_edit_unix |-> le],
    version |-> ver,
    ttl |-> ttl] :
     mt \in {None, Some("token2")}, le \in {2, -5},
     ver \in CodecVersions, ttl \in {None, Some(0), Some(12345), Some(-1)}}

\* attribute values a stored field can hold instead of the one encode writes
OddAttrs ==
  {AttrS(<<"x">>), AttrN(<<"x">>), AttrN(<<"-", "1">>), AttrN(<<>>),
   AttrN(<<"1", ".", "5">>), AttrN(<<"+", "1">>), AttrN(<<"2">>),
   [t |-> "BOOL", x |-> <<>>]}

\* stored maps: an encoded record with one top-level field changed or removed
SeedEntries ==
  {e \in CodecEntries :
     /\ e.version = 2 /\ e.event.last_edit_unix = 2
     /\ ~e.event.moderator_token.some
     /\ e.ttl \in {None, Some(12345)}}

StoredMaps ==
  {WithoutAttr(Encode(e), name) : e \in SeedEntries, name \in {"v", "event", "format", "ttl"}}
  \cup {WithAttr(Encode(e), name, a) :
          e \in SeedEntries, name \in {"v", "event", "format", "ttl"}, a \in OddAttrs}

\* stored items of the table get reads: a put item with `v` or `value` changed
\* or removed, or no item
SeedItem == PutRequest([event |-> [public_token |-> "t1", last_edit_unix |-> 12],
                        version |-> 2]).item

StoredItems ==
  {Absent, Item(SeedItem)}
  \cup {Item(WithoutAttr(SeedItem, name)) : name \in {"v", "value"}}
  \cup {Item(WithAttr(SeedItem, name, a)) : name \in {"v", "value"}, a \in OddAttrs}

NoOut == [res |-> NoResult]

CodecAt(phase, e, map, item, encoded, out) ==
  [phase |-> phase, entry |-> e, map |-> map, item |-> item, encoded |-> encoded,
   out |-> out]

NoMap == [n \in {} |-> AttrN(<<>>)]

InitCodec ==
  /\ table = [k \in Keys |-> Absent]
  /\ WritersInit
  /\ boot = BootIdle
  /\ \/ \E e \in CodecEntries :
          codec = CodecAt("entry", e, NoMap, Absent, FALSE, NoOut)
     \/ \E map \in StoredMaps :
          codec = CodecAt("map", DefaultCodecEntry, map, Absent, FALSE, NoOut)
     \/ \E item \in StoredItems :
          codec = CodecAt("item", DefaultCodecEntry, NoMap, item, FALSE, NoOut)

\* From<EventEntry> for AttributeMap applied to the record
CodecEncode ==
  /\ codec.phase = "entry"
  /\ codec' = [codec EXCEPT !.phase = "map", !.map = Encode(codec.entry),
                            !.encoded = TRUE]
  /\ UNCHANGED <<storeVars, boot>>

\* TryFrom<&AttributeMap> for EventEntry applied to the map
CodecDecode ==
  /\ codec.phase = "map"
  /\ codec' = [codec EXCEPT !.phase = "decoded", !.out = Decode(codec.map)]
  /\ UNCHANGED <<storeVars, boot>>

\* get's conversion applied to the item get_item answered with
CodecGet ==
  /\ codec.phase = "item"
  /\ codec' = [codec EXCEPT !.phase = "got", !.out = GetResult(codec.item)]
  /\ UNCHANGED <<storeVars, boot>>

NextCodec == CodecEncode \/ CodecDecode \/ CodecGet

SpecCodec == InitCodec /\ [][NextCodec]_vars

\* ------------------------------------------------------- the constructor
\* constructions one run makes, one after the other
MaxBoots == 3

DB_TABLE_NAME == "liveask"

\* the tables the account may hold besides the store's own
OtherTables == {"sessions", "metrics"}

BootAt(phase, check, tables, names, listed, lists, creates, made, n, res) ==
  [phase |-> phase, check |-> check, tables |-> tables, names |-> names,
   listed |-> listed, lists |-> lists, creates |-> creates, made |-> made,
   n |-> n, res |-> res]

\* no construction yet; the account holds any of the tables
InitBoot ==
  /\ table = [k \in Keys |-> Absent]
  /\ WritersInit
  /\ codec = CodecIdle
  /\ \E held \in SUBSET ({DB_TABLE_NAME} \cup OtherTables) :
       boot = BootAt("idle", FALSE, held, {}, FALSE, 0, 0, 0, 0, NoResult)

\* DynamoEventsDB::new entered: with the check it sends list_tables, without
\* it it returns the store at once
BootStart(check) ==
  /\ boot.phase \in {"idle", "done"}
  /\ boot.n < MaxBoots
  /\ boot' = [boot EXCEPT !.phase = IF check THEN "listing" ELSE "done",
                          !.check = check,
                          !.names = {},
                          !.listed = FALSE,
                          !.lists = IF check THEN 1 ELSE 0,
                          !.creates = 0,
                          !.n = boot.n + 1,
                          !.res = IF check THEN NoResult ELSE Ok]
  /\ UNCHANGED <<storeVars, codec>>

\* list_tables answered with a list lacking the name or not: create_table is
\* sent whatever the list holds
BootListOk_AlwaysCreate ==
  /\ boot.phase = "listing"
  /\ boot' = [boot EXCEPT !.phase = "creating", !.names = boot.tables,
                          !.listed = TRUE, !.creates = 1]
  /\ UNCHANGED <<storeVars, codec>>

\* list_tables answered: new returns the store when the name is in the list and
\* sends create_table when it is not
BootListOk ==
  /\ boot.phase = "listing"
  /\ boot' = [boot EXCEPT !.phase = IF DB_TABLE_NAME \in boot.tables
                                    THEN "done" ELSE "creating",
                          !.names = boot.tables,
                          !.listed = TRUE,
                          !.creates = IF DB_TABLE_NAME \in boot.tables THEN 0 ELSE 1,
                          !.res = IF DB_TABLE_NAME \in boot.tables THEN Ok ELSE NoResult]
  /\ UNCHANGED <<storeVars, codec>>

\* list_tables failed: `?` returns the error
BootListFail ==
  /\ boot.phase = "listing"
  /\ boot' = [boot EXCEPT !.phase = "done", !.res = Err("DynamoListTables")]
  /\ UNCHANGED <<storeVars, codec>>

\* create_table answered: the account holds the table and new returns the store
BootCreateOk ==
  /\ boot.phase = "creating"
  /\ DB_TABLE_NAME \notin boot.tables
  /\ boot' = [boot EXCEPT !.phase = "done",
                          !.tables = boot.tables \cup {DB_TABLE_NAME},
                          !.made = boot.made + 1,
                          !.res = Ok]
  /\ UNCHANGED <<storeVars, codec>>

\* create_table failed: the service refused it (the table is there by now), the
\* request never arrived, or the table was made and the answer lost; `?`
\* returns the error
BootCreateFail(applied) ==
  /\ boot.phase = "creating"
  /\ applied => DB_TABLE_NAME \notin boot.tables
  /\ boot' = [boot EXCEPT !.phase = "done",
                          !.tables = IF applied THEN boot.tables \cup {DB_TABLE_NAME}
                                     ELSE boot.tables,
                          !.made = IF applied THEN boot.made + 1 ELSE boot.made,
                          !.res = Err("DynamoCreateTable")]
  /\ UNCHANGED <<storeVars, codec>>

\* somebody else creates a table of the account
OtherCreate(name) ==
  /\ boot.phase # "idle"
  /\ name \notin boot.tables
  /\ boot' = [boot EXCEPT !.tables = boot.tables \cup {name}]
  /\ UNCHANGED <<storeVars, codec>>

NextBoot ==
  \/ \E check \in BOOLEAN : BootStart(check)
  \/ BootListOk
  \/ BootListFail
  \/ BootCreateOk
  \/ \E applied \in BOOLEAN : BootCreateFail(applied)
  \/ \E name \in {DB_TABLE_NAME} \cup OtherTables : OtherCreate(name)

SpecBoot == InitBoot /\ [][NextBoot]_vars

\* ------------------------------------------------------- the claims' terms
K1 == event_key("t1")

\* w's put returns in this step
PutReturns(w) == pc[w] = "putting" /\ pc'[w] = "idle"

\* w's put returns Ok in this step
PutAccepted(w) == PutReturns(w) /\ ret'.res = Ok

\* the table answered w's put_item: it did not fail for another reason
TableAnswered == ret'.resp \notin SdkFailures

\* w's get of tok, answered by get_item, returns in this step
GetAnswered(w, tok) == ret'.op = "get" /\ ret'.who = w /\ GetOk(w, tok)

\* w's get of tok returns in this step
GetReturns(w, tok) ==
  /\ ret'.op = "get"
  /\ ret'.who = w
  /\ GetOk(w, tok) \/ \E f \in SdkFailures : GetFail(w, tok, f)

\* the item a put of entry e stores
Stored(e) == Item(PutRequest(e).item)

\* C1: a put of a record with version n > 0 returns Ok only if the version stored
\* under the record's key is n - 1; when the stored version is anything else and
\* the table answers the request, the put returns Concurrency.
C1_GuardedPut ==
  [][\A w \in Writers :
       (PutReturns(w) /\ entry[w].version > 0) =>
         /\ ret'.res = Ok => StoredVersion(table[KeyOf(w)]) = entry[w].version - 1
         /\ (StoredVersion(table[KeyOf(w)]) # entry[w].version - 1 /\ TableAnswered)
              => ret'.res = Err("Concurrency")]_vars

\* A stored version 0 then 1; B, holding version 1 built on the version-0
\* snapshot, was answered Concurrency
C1_Witness ==
  /\ ret.who = "B" /\ ret.op = "put" /\ ret.res = Err("Concurrency")
  /\ entry["B"].version = 1
  /\ entry["A"].version = 1
  /\ accepted[K1] = Record(entry["A"])
  /\ StoredVersion(table[K1]) = 1

\* C2: a put of a record with version n > 0, during whose flight only puts of
\* records with the same version n were accepted on its key (at least one), does
\* not succeed: the table answers it with the conditional-check failure and it
\* returns Concurrency.
C2_OneWinner ==
  [][\A w \in Writers :
       (PutReturns(w) /\ entry[w].version > 0 /\ race[w] = "same") =>
         /\ ret'.res # Ok
         /\ TableAnswered => ret'.res = Err("Concurrency")]_vars

\* A and B raced on the same version of the same key; A won, B lost
C2_Witness ==
  /\ ret.who = "B" /\ ret.op = "put" /\ ret.race = "same"
  /\ ret.res = Err("Concurrency")
  /\ entry["B"].version > 0
  /\ entry["A"].version = entry["B"].version
  /\ accepted[KeyOf("B")] = Record(entry["A"])

\* C3: every accepted put moves the stored version of its key from Absent to 0
\* or from n to n + 1.
C3_VersionStepsByOne ==
  [][\A w \in Writers :
       (PutAccepted(w) /\ (table[KeyOf(w)] = Absent \/ StoredVersion(table[KeyOf(w)]) >= 0))
         => StoredVersion(table'[KeyOf(w)]) =
              IF table[KeyOf(w)] = Absent THEN 0 ELSE StoredVersion(table[KeyOf(w)]) + 1]_vars

\* C4: a writer whose put of a record it read with get and bumped once is
\* accepted had no other put accepted on that key since its get.
C4_NoLostUpdate ==
  [][\A w \in Writers :
       (PutAccepted(w) /\ txn[w] = "bumped") => ~interfered[w]]_vars

\* C5: a put that returns Concurrency leaves the table as it was, the item under
\* the record's key included.
C5_RejectedPutWritesNothing ==
  [][\A w \in Writers :
       (PutReturns(w) /\ ret'.res = Err("Concurrency")) =>
         /\ table'[KeyOf(w)] = table[KeyOf(w)]
         /\ table' = table]_vars

\* a put was answered Concurrency and the stored item is another record
C5_Witness ==
  /\ ret.op = "put" /\ ret.res = Err("Concurrency")
  /\ pc[ret.who] = "idle"
  /\ table[KeyOf(ret.who)].present
  /\ table[KeyOf(ret.who)] # Stored(entry[ret.who])
  /\ accepted[KeyOf(ret.who)].some
  /\ table[KeyOf(ret.who)] = Stored(accepted[KeyOf(ret.who)].entry)

\* C6: a get that get_item answers, for a public token under which a put was
\* accepted, returns Ok with the event and version of the record accepted last.
C6_ReadLatest ==
  [][\A w \in Writers, tok \in Tokens :
       (GetAnswered(w, tok) /\ accepted[event_key(tok)].some) =>
         /\ ret'.res = Ok
         /\ entry'[w] = accepted[event_key(tok)].entry]_vars

\* B read back the bumped record that A put
C6_Witness ==
  /\ ret.who = "B" /\ ret.op = "get" /\ ret.res = Ok
  /\ txn["B"] = "read"
  /\ entry["B"].version = 1
  /\ entry["B"].event.last_edit_unix = 12
  /\ accepted[K1] = Record(entry["B"])
  /\ entry["A"] = entry["B"]

\* C7: no get changes the table, whatever it returns; an item changes only in a
\* step in which a put on its key returns Ok.
C7_OnlyPutWrites ==
  [][/\ \A w \in Writers, tok \in Tokens : GetReturns(w, tok) => table' = table
     /\ \A k \in Keys :
          table'[k] # table[k] => \E w \in Writers : PutAccepted(w) /\ KeyOf(w) = k]_vars

\* a get of a malformed item returned its error while the table holds a record
C7_Witness ==
  /\ ret.op = "get" /\ ret.res = Err("General")
  /\ table[event_key("t2")] = ForeignItem(event_key("t2"))
  /\ accepted[K1].some
  /\ table[K1] = Stored(accepted[K1].entry)

\* C8: a put whose put_item is answered with the conditional-check failure
\* returns Concurrency; a put whose put_item fails in any other way returns
\* DynamoPut carrying that failure; Concurrency and Ok are returned for nothing
\* else.
C8_ErrorClasses ==
  ret.op = "put" =>
    /\ ret.resp = SdkConditionalCheckFailed <=> ret.res = Err("Concurrency")
    /\ ret.resp \in SdkFailures <=> ret.res.kind = "DynamoPut"
    /\ ret.res.kind = "DynamoPut" => ret.res.cause = ret.resp
    /\ ret.resp = SdkOk <=> ret.res = Ok

\* a put failed with a service error that is no conditional-check failure
C8_Witness ==
  /\ ret.op = "put"
  /\ ret.resp = [variant |-> "ServiceError", kind |-> "InternalServerError"]
  /\ ret.res = ErrCause("DynamoPut", ret.resp)

\* C9: a get that get_item answers, for a key under which the table holds no
\* item, returns ItemNotFound and hands out no entry.
C9_NotFound ==
  [][\A w \in Writers, tok \in Tokens :
       (GetAnswered(w, tok) /\ table[event_key(tok)] = Absent) =>
         /\ ret'.res = Err("ItemNotFound")
         /\ entry'[w] = entry[w]
         /\ pc'[w] = pc[w]]_vars

\* a get of a key never put returned ItemNotFound, with records under another
C9_Witness ==
  /\ ret.op = "get" /\ ret.res = Err("ItemNotFound")
  /\ table[event_key("t2")] = Absent
  /\ ~accepted[event_key("t2")].some
  /\ table[K1].present

\* C10: a put of a record with version 0 that the table answers returns Ok
\* whatever is stored under its key, and the stored item becomes that record.
C10_UnguardedCreate ==
  [][\A w \in Writers :
       (PutReturns(w) /\ entry[w].version = 0 /\ TableAnswered) =>
         /\ ret'.res = Ok
         /\ table'[KeyOf(w)] = Stored(entry[w])
         /\ accepted'[KeyOf(w)] = Record(entry[w])]_vars

\* A and B both put a version-0 record for the same key concurrently; both were
\* accepted and B's, which reached the table last, is stored
C10_Witness ==
  /\ ret.who = "B" /\ ret.op = "put" /\ ret.res = Ok /\ ret.race = "same"
  /\ entry["B"].version = 0
  /\ entry["A"].version = 0
  /\ entry["A"] # entry["B"]
  /\ KeyOf("A") = KeyOf("B")
  /\ table[KeyOf("B")] = Stored(entry["B"])

\* C11: a put in progress has sent exactly one put_item, a writer not in a put
\* has none outstanding, and every get and put that returned, whatever its
\* Result, sent exactly one request to the table.
C11_NoRetry ==
  /\ \A w \in Writers : sent[w] = IF pc[w] = "putting" THEN 1 ELSE 0
  /\ ret.op # "none" => ret.reqs = 1

\* a put returned DynamoPut for a failed put_item after one request
C11_Witness ==
  /\ ret.op = "put" /\ ret.res.kind = "DynamoPut" /\ ret.reqs = 1
  /\ ret.resp = [variant |-> "DispatchFailure", kind |-> "none"]
  /\ sent[ret.who] = 0
  /\ pc[ret.who] = "idle"

\* ------------------------------------------------- the codec claims' terms
\* the `v` entry is there but holds no non-negative integer
VersionUnreadable(attrs) ==
  /\ "v" \in DOMAIN attrs
  /\ attrs["v"].t # "N" \/ ParseUsize(attrs["v"].x) < 0

\* the `format` entry is there and holds the current format
FormatKnown(attrs) ==
  /\ "format" \in DOMAIN attrs
  /\ attrs["format"].t = "N"
  /\ ParseUsize(attrs["format"].x) = CURRENT_FORMAT

\* the `ttl` entry is missing or holds no integer
TtlUnreadable(attrs) ==
  \/ "ttl" \notin DOMAIN attrs
  \/ attrs["ttl"].t # "N"
  \/ ~ParseI64(attrs["ttl"].x).some

\* C12: decoding the map that encode produced for a record yields Ok with a
\* record equal to it, absent optional fields (moderator_token, ttl) included.
C12_RoundTrip ==
  (codec.phase = "decoded" /\ codec.encoded) =>
    /\ codec.out.res = Ok
    /\ codec.out.entry = codec.entry

\* a record with version 2, no ttl and no moderator token went through encode
\* and decode
C12_Witness ==
  /\ codec.phase = "decoded" /\ codec.encoded
  /\ codec.entry.version = 2
  /\ codec.entry.ttl = None
  /\ codec.entry.event.moderator_token = None
  /\ "ttl" \notin DOMAIN codec.map
  /\ codec.out.entry.ttl = None
  /\ codec.out.entry.event.moderator_token = None

\* C13: when `v` is present but is no number attribute, or its text parses as
\* no non-negative integer, decode and get return the error value (General,
\* ParseInt): no panic and no record.
C13_BadVersionIsError ==
  /\ (codec.phase = "decoded" /\ VersionUnreadable(codec.map)) =>
       codec.out.res \in {Err("General"), Err("ParseInt")}
  /\ (codec.phase = "got" /\ codec.item.present /\ VersionUnreadable(codec.item.attrs)) =>
       codec.out.res \in {Err("General"), Err("ParseInt")}

\* decode met the version text "-1" and returned ParseInt
C13_Witness ==
  /\ codec.phase = "decoded"
  /\ "v" \in DOMAIN codec.map
  /\ codec.map["v"] = AttrN(<<"-", "1">>)
  /\ codec.out.res = Err("ParseInt")

\* C14: when a stored item lacks a required field (`v`, or the payload field),
\* decode and get return a malformed error value.
C14_MissingFieldIsError ==
  /\ (codec.phase = "decoded" /\ ("v" \notin DOMAIN codec.map \/ "event" \notin DOMAIN codec.map))
       => codec.out.res \in {Err("General"), Err("MalformedObject")}
  /\ (/\ codec.phase = "got"
      /\ codec.item.present
      /\ ("v" \notin DOMAIN codec.item.attrs \/ "value" \notin DOMAIN codec.item.attrs))
       => codec.out.res \in {Err("General"), Err("MalformedObject")}

\* C15: every encoded map carries `format` with the current value, and decode
\* returns an error for a map whose `format` is missing or another value.
C15_FormatChecked ==
  /\ (codec.phase \in {"map", "decoded"} /\ codec.encoded) =>
       /\ "format" \in DOMAIN codec.map
       /\ codec.map["format"] = AttrN(to_string(CURRENT_FORMAT))
  /\ (codec.phase = "decoded" /\ ~FormatKnown(codec.map)) => codec.out.res # Ok

\* C19: a map that decodes without its `ttl` entry decodes Ok with it too, with
\* ttl absent when the entry is missing, is no number attribute or parses as no
\* integer; encode writes `ttl` exactly when the record has one.
C19_TtlTolerated ==
  /\ (codec.phase = "decoded" /\ Decode(WithoutAttr(codec.map, "ttl")).res = Ok) =>
       /\ codec.out.res = Ok
       /\ TtlUnreadable(codec.map) => codec.out.entry.ttl = None
  /\ (codec.phase \in {"map", "decoded"} /\ codec.encoded) =>
       ("ttl" \in DOMAIN codec.map <=> codec.entry.ttl.some)

\* decode met a string attribute as `ttl` and returned the record without ttl
C19_Witness ==
  /\ codec.phase = "decoded"
  /\ "ttl" \in DOMAIN codec.map
  /\ codec.map["ttl"] = AttrS(<<"x">>)
  /\ codec.out.res = Ok
  /\ codec.out.entry.ttl = None
  /\ codec.out.entry.version = 2

\* C16: a construction sent create_table only if it was given the check and the
\* list it got back lacked the name; without the check it sent neither request
\* and returned the store; constructions one after the other made the table at
\* most once; and a construction whose list held the name returned the store
\* without a create_table.
C16_CreateOnlyWhenMissing ==
  /\ boot.phase # "idle" =>
       /\ boot.creates > 0 =>
            boot.check /\ boot.listed /\ DB_TABLE_NAME \notin boot.names
       /\ ~boot.check =>
            boot.lists = 0 /\ boot.creates = 0 /\ boot.phase = "done" /\ boot.res = Ok
       /\ boot.made <= 1
       /\ (boot.listed /\ DB_TABLE_NAME \in boot.names) =>
            boot.phase = "done" /\ boot.res = Ok /\ boot.creates = 0
       /\ boot.lists <= 1 /\ boot.creates <= 1

\* the second construction with the check found the table the first had made
C16_Witness ==
  /\ boot.phase = "done"
  /\ boot.n = 2
  /\ boot.made = 1
  /\ boot.check /\ boot.listed
  /\ DB_TABLE_NAME \in boot.names
  /\ boot.creates = 0
  /\ boot.res = Ok

\* C17: a put of a record with version > 0 on a key holding no item is not
\* accepted and leaves the table as it was, and returns Concurrency when the
\* table answers it; a key leaves Absent only by an accepted put of a version-0
\* record, whose item it then holds.
C17_AbsentNeedsVersionZero ==
  [][/\ \A w \in Writers :
          (PutReturns(w) /\ entry[w].version > 0 /\ table[KeyOf(w)] = Absent) =>
            /\ table' = table
            /\ ret'.res # Ok
            /\ TableAnswered => ret'.res = Err("Concurrency")
     /\ \A k \in Keys :
          (table[k] = Absent /\ table'[k] # Absent) =>
            \E w \in Writers :
              /\ PutAccepted(w)
              /\ KeyOf(w) = k
              /\ entry[w].version = 0
              /\ table'[k] = Stored(entry[w])]_vars

\* a put of a version-2 record on the empty key t1 was answered Concurrency
C17_Witness ==
  /\ ret.op = "put" /\ ret.res = Err("Concurrency")
  /\ ret.who = "A"
  /\ entry["A"].version = 2
  /\ KeyOf("A") = K1
  /\ table[K1] = Absent

\* C18: new yields version 0 and bump raises the version by one; a put of a
\* record read with get and bumped once, with no other put accepted on its key
\* since the get and answered by the table, returns Ok and the stored version
\* becomes the read version plus one; the same put after a rival's put of the
\* same version was accepted last on the key returns Concurrency.
C18_CleanTransactionAccepted ==
  [][\A w \in Writers :
       /\ (\E tok \in NewTokens, t \in Times : New(w, tok, t)) => entry'[w].version = 0
       /\ (\E now \in Times : Bump(w, now)) => entry'[w].version = entry[w].version + 1
       /\ (PutReturns(w) /\ txn[w] = "bumped" /\ TableAnswered) =>
            /\ ~interfered[w] =>
                 /\ ret'.res = Ok
                 /\ StoredVersion(table[KeyOf(w)]) = entry[w].version - 1
                 /\ StoredVersion(table'[KeyOf(w)]) = entry[w].version
                 /\ table'[KeyOf(w)] = Stored(entry[w])
            /\ (/\ interfered[w]
                /\ accepted[KeyOf(w)].some
                /\ accepted[KeyOf(w)].entry.version = entry[w].version)
                 => ret'.res = Err("Concurrency") /\ table' = table]_vars

\* B, after A's version-1 put won, read version 1, bumped and had its
\* version-2 put accepted
C18_Witness ==
  /\ ret.op = "put" /\ ret.who = "B" /\ ret.res = Ok
  /\ entry["B"].version = 2
  /\ entry["A"].version = 1
  /\ KeyOf("A") = K1
  /\ accepted[K1] = Record(entry["B"])
  /\ StoredVersion(table[K1]) = 2
  /\ txn["B"] = "none"
====
